---- MODULE Spec2Model ----
(***************************************************************************)
(* Model of monodeps/analyzer.py: the import resolver (ImportAnalyzer),   *)
(* the work-queue traversal (DependencyAnalyzer.analyze_project), the      *)
(* requirements written from its result, and the main functions of         *)
(* analyzer.py and cli.py that drive them.                                 *)
(*                                                                         *)
(* A path is the sequence of its components, <<"p", "a", "b.py">> for      *)
(* p/a/b.py.  A dotted import name is the sequence of its segments,        *)
(* <<"a", "b">> for a.b: str.split('.') and '.'.join are inverse on names  *)
(* whose segments hold no dot, which is the case of every module name the  *)
(* parser yields.                                                          *)
(***************************************************************************)
EXTENDS Naturals, Sequences, FiniteSets, TLC

(***************************************************************************)
(* Bounds of the model.                                                    *)
(***************************************************************************)
MaxFiles == 3          \* files in the tree
MaxEntryPoints == 2    \* entry points given to DependencyAnalyzer
MaxImports == 3        \* import statements in the files of the project, in all
MaxCalls == 2          \* the counters of calls saturate here
NumWorkers == 2        \* threads running the loop body, where several do

(***************************************************************************)
(* The universe: directories, module names, files, statements.             *)
(***************************************************************************)
P == <<"p">>
PA == <<"p", "a">>

None == <<"None">>

Stems == {"a", "b", "os", "__init__", "main"}

\* Path.with_suffix('.py') of a path whose last component has no suffix.
WithSuffixPy(path) ==
    SubSeq(path, 1, Len(path) - 1) \o <<path[Len(path)] \o ".py">>

\* Path.with_suffix('') of a file name stem.py
StripSuffix(name) == CHOOSE s \in Stems : s \o ".py" = name

\* Path.joinpath(*parts)
JoinPath(base, parts) == base \o parts

\* path / '__init__.py'
InitFileOf(dir) == dir \o <<"__init__.py">>

\* Path.parent
Parent(path) == SubSeq(path, 1, Len(path) - 1)

CandidateFiles ==
    { <<"p", "a.py">>, <<"p", "b.py">>, <<"p", "os.py">>,
      <<"p", "a", "__init__.py">>, <<"p", "a", "b.py">> }

EntryCandidates == { <<"p", "b.py">>, <<"p", "a", "b.py">> }

\* The lists given as additional_paths.
AdditionalPathLists == { <<>>, <<PA>> }

\* The module names sysconfig's stdlib directory and sys.builtin_module_names
\* hold in the modelled installation.
StdlibDirModules == {"os"}
BuiltinModuleNames == {}

\* ast.Import carries a list of names, ast.ImportFrom a module (None for
\* 'from . import x'), the names imported from it and a level.
ImportStmt(names) ==
    [form |-> "import", names |-> names, imported |-> <<>>, level |-> 0]
ImportFromStmt(module, imported, level) ==
    [form |-> "from", names |-> <<module>>, imported |-> imported, level |-> level]

Statements ==
    { ImportStmt(<<<<"a">>>>),
      ImportStmt(<<<<"b">>>>),
      ImportStmt(<<<<"os">>>>),
      ImportFromStmt(<<"a", "b">>, <<"x">>, 0) }

\* The text of a file: the import statements the visitor meets in it, and
\* whether reading, parsing or visiting the file raises (for a file that
\* raises, stmts are the statements met before the exception).
FileTexts ==
    { [raises |-> FALSE, stmts |-> s] : s \in SUBSET Statements }
    \cup { [raises |-> TRUE, stmts |-> {ImportStmt(<<<<"a">>>>)}] }

\* The values of the environment variables PYTHONPATH and PATH, as the
\* lists str.split(os.pathsep) yields; <<>> is an empty list entry.
Environments ==
    { [PYTHONPATH |-> <<>>, PATH |-> <<>>],
      [PYTHONPATH |-> << <<>>, PA >>, PATH |-> << P >>] }

\* The names an import statement of the model can make external.
PackageNames == {"a", "ab", "c"}

\* A file that does not exist, and the one args.output names before the run.
NoOutput == [exists |-> FALSE, lines |-> <<>>]
OldOutput == [exists |-> TRUE, lines |-> <<"old==0.1">>]

SeqsUpTo(S, n) == UNION { [1..k -> S] : k \in 0..n }

Range(s) == { s[i] : i \in 1..Len(s) }

Permutations_(S) == { s \in [1..Cardinality(S) -> S] : Range(s) = S }

VARIABLES
    tree,                   \* the files that exist
    file_text,              \* the text of each file that has been read
    environ,                \* os.environ
    entry_points,           \* DependencyAnalyzer.entry_points
    additional_paths,       \* DependencyAnalyzer.additional_paths
    local_paths,            \* DependencyAnalyzer.local_paths (a set)
    local_paths_order,      \* the iteration order of that set
    processed_files,        \* DependencyAnalyzer.processed_files
    external_dependencies,  \* DependencyAnalyzer.external_dependencies
    files_to_process,       \* the local of analyze_project
    pc,                     \* position in analyze_project
    analyze_calls,          \* calls of analyze_file, per file
    last,                   \* what the last loop iteration did
    main_pc,                \* position in main
    exit_code,              \* the exit status of the process, once it has one
    output_file,            \* the file named by args.output
    requirements,           \* the dict generate_requirements returned last
    registry,               \* importlib.metadata, for the names looked up so far
    registry_queries,       \* calls of metadata.version, per name
    startup_environ,        \* os.environ as it was when the run started
    workers                 \* the threads running the loop body, when there are any

\* What the traversal of one DependencyAnalyzer does not touch.
driver == << main_pc, exit_code, output_file, requirements, registry,
             registry_queries, startup_environ, workers >>

vars == << tree, file_text, environ, entry_points, additional_paths, local_paths,
           local_paths_order, processed_files, external_dependencies,
           files_to_process, pc, analyze_calls, last, driver >>

inputs == << tree, environ, entry_points, additional_paths, local_paths,
             local_paths_order >>

(***************************************************************************)
(* ImportAnalyzer                                                          *)
(***************************************************************************)
Exists(path) == path \in tree

\* ImportAnalyzer._get_stdlib_modules
_get_stdlib_modules == StdlibDirModules \cup BuiltinModuleNames

\* list(filter(None, os.getenv(name, '').split(os.pathsep)))
EnvPaths(value) == SelectSeq(value, LAMBDA e : e # <<>>)

\* the search_paths of _find_module_file
SearchPaths(local_list) ==
    local_list \o EnvPaths(environ.PYTHONPATH) \o EnvPaths(environ.PATH)

\* 'Try as a direct module first'
DirectModule(base_path, import_parts) ==
    LET module_file == WithSuffixPy(JoinPath(base_path, import_parts))
    IN  IF Exists(module_file) THEN <<module_file, FALSE>> ELSE None

\* 'Try as a package (with __init__.py)'
PackageInit(base_path, import_parts) ==
    LET init_file == InitFileOf(JoinPath(base_path, import_parts))
    IN  IF Exists(init_file) THEN <<init_file, TRUE>> ELSE None

\* A round that looks for the package holding the last segment: the
\* remaining parts without their last.
PrefixStepToPackage(base_path, import_parts, i) ==
    LET partial_path == JoinPath(base_path, SubSeq(import_parts, 1, i))
        remaining_parts == SubSeq(import_parts, i + 1, Len(import_parts) - 1)
        submodule == JoinPath(partial_path, remaining_parts)
    IN  IF Exists(InitFileOf(partial_path)) /\ i < Len(import_parts)
        THEN IF Exists(InitFileOf(submodule)) THEN <<InitFileOf(submodule), TRUE>>
             ELSE None
        ELSE None

\* One round of the loop 'for i in range(len(import_parts))', i counted from 1.
PrefixStep(base_path, import_parts, i) ==
    LET partial_path == JoinPath(base_path, SubSeq(import_parts, 1, i))
        remaining_parts == SubSeq(import_parts, i + 1, Len(import_parts))
        submodule == JoinPath(partial_path, remaining_parts)
    IN  IF Exists(InitFileOf(partial_path)) /\ remaining_parts # <<>>
        THEN IF Exists(WithSuffixPy(submodule)) THEN <<WithSuffixPy(submodule), FALSE>>
             ELSE IF Exists(InitFileOf(submodule)) THEN <<InitFileOf(submodule), TRUE>>
             ELSE None
        ELSE None

\* 'Handle the case where it might be a submodule in a package'
PrefixWalk(base_path, import_parts) ==
    LET hits == { i \in 1..Len(import_parts) :
                    PrefixStep(base_path, import_parts, i) # None }
    IN  IF hits = {} THEN None
        ELSE PrefixStep(base_path, import_parts,
                        CHOOSE i \in hits : \A j \in hits : i <= j)

\* The package test ahead of the module test.
FindUnderPackageFirst(base_path, import_parts) ==
    IF PackageInit(base_path, import_parts) # None
    THEN PackageInit(base_path, import_parts)
    ELSE IF DirectModule(base_path, import_parts) # None
    THEN DirectModule(base_path, import_parts)
    ELSE PrefixWalk(base_path, import_parts)

\* The body of 'for base_path in search_paths'
FindUnder(base_path, import_parts) ==
    IF DirectModule(base_path, import_parts) # None
    THEN DirectModule(base_path, import_parts)
    ELSE IF PackageInit(base_path, import_parts) # None
    THEN PackageInit(base_path, import_parts)
    ELSE PrefixWalk(base_path, import_parts)

RECURSIVE FindFrom(_, _, _)
FindFrom(search_paths, k, import_parts) ==
    IF k > Len(search_paths) THEN None
    ELSE IF FindUnder(search_paths[k], import_parts) # None
    THEN FindUnder(search_paths[k], import_parts)
    ELSE FindFrom(search_paths, k + 1, import_parts)

\* ImportAnalyzer._find_module_file
_find_module_file(local_list, import_parts) ==
    FindFrom(SearchPaths(local_list), 1, import_parts)

\* The last segment in place of the first.
TopLevelLast(parts) == parts[Len(parts)]

\* 'top_level = parts[0]'
TopLevel(parts) == parts[1]

\* A test against the built-in module names alone.
IsStdlibBuiltinOnly(top_level) == top_level \in BuiltinModuleNames

\* 'if top_level in self.stdlib_modules: return'
IsStdlib(top_level) == top_level \in _get_stdlib_modules

\* The initializers of the packages above a file found for `parts`.
ParentInits(parts, found_module) ==
    LET file == found_module[1]
        depth == Len(file) - Len(parts) - (IF found_module[2] THEN 1 ELSE 0)
    IN  { <<SubSeq(parts, 1, i), InitFileOf(SubSeq(file, 1, depth + i))>> :
            i \in { j \in 1..(Len(parts) - 1) :
                       Exists(InitFileOf(SubSeq(file, 1, depth + j))) } }

\* A _process_import that enqueues the initializers of the parent packages
\* with the file found.
_process_import_with_parents(local_list, import_name) ==
    LET parts == import_name
        top_level == TopLevel(parts)
        found_module == _find_module_file(local_list, parts)
    IN  IF IsStdlib(top_level)
        THEN [name |-> import_name, find_called |-> FALSE, found |-> None,
              project_imports |-> {}, files_to_process |-> {},
              external_imports |-> {}]
        ELSE IF found_module # None
        THEN [name |-> import_name, find_called |-> TRUE, found |-> found_module,
              project_imports |-> {import_name},
              files_to_process |-> {<<import_name, found_module[1]>>}
                                      \cup ParentInits(parts, found_module),
              external_imports |-> {}]
        ELSE [name |-> import_name, find_called |-> TRUE, found |-> None,
              project_imports |-> {}, files_to_process |-> {},
              external_imports |-> {top_level}]

\* ImportAnalyzer._process_import: what one call adds to the analyzer, and
\* whether it called _find_module_file.
_process_import(local_list, import_name) ==
    LET parts == import_name
        top_level == TopLevel(parts)
        found_module == _find_module_file(local_list, parts)
    IN  IF IsStdlib(top_level)
        THEN [name |-> import_name, find_called |-> FALSE, found |-> None,
              project_imports |-> {}, files_to_process |-> {},
              external_imports |-> {}]
        ELSE IF found_module # None
        THEN [name |-> import_name, find_called |-> TRUE, found |-> found_module,
              project_imports |-> {import_name},
              files_to_process |-> {<<import_name, found_module[1]>>},
              external_imports |-> {}]
        ELSE [name |-> import_name, find_called |-> TRUE, found |-> None,
              project_imports |-> {}, files_to_process |-> {},
              external_imports |-> {top_level}]

\* A visitor that passes over the from-imports of a level above 0.
VisitedNamesSkipsRelative(stmt) ==
    IF stmt.form = "import"
    THEN Range(stmt.names)
    ELSE IF stmt.names[1] # None /\ stmt.level = 0 THEN {stmt.names[1]} ELSE {}

\* visit_Import and visit_ImportFrom: the names handed to _process_import
VisitedNames(stmt) ==
    IF stmt.form = "import"
    THEN Range(stmt.names)
    ELSE IF stmt.names[1] # None THEN {stmt.names[1]} ELSE {}

\* analyzer.visit(tree): one _process_import per name of each statement
Visit(local_list, stmts) ==
    { _process_import(local_list, n) : n \in UNION { VisitedNames(s) : s \in stmts } }

(***************************************************************************)
(* DependencyAnalyzer                                                      *)
(***************************************************************************)
\* DependencyAnalyzer.__init__: 'self.local_paths = set() ... add ... update'
LocalPathsOf(eps, extra) ==
    { Parent(eps[i]) : i \in 1..Len(eps) } \cup Range(extra)

\* An assignment in place of the update.
MergeExternalAssign(external, calls) ==
    UNION { c.external_imports : c \in calls }

\* 'self.external_dependencies.update(analyzer.external_imports)'
MergeExternal(external, calls) ==
    external \cup UNION { c.external_imports : c \in calls }

\* The results of the visit kept although the file raised.
analyze_file_keeps_partial(text, external) ==
    LET calls == Visit(local_paths_order, text.stmts)
    IN  [external |-> MergeExternal(external, calls),
         new_files |-> UNION { c.files_to_process : c \in calls },
         calls |-> calls, escaped |-> FALSE]

\* DependencyAnalyzer.analyze_file: the new external set, the returned set,
\* the calls of _process_import made on the way, and whether an exception
\* leaves the method ('except Exception' lets none).
analyze_file(text, external) ==
    LET calls == Visit(local_paths_order, text.stmts)
    IN  IF text.raises
        THEN [external |-> external, new_files |-> {}, calls |-> calls,
              escaped |-> FALSE]
        ELSE [external |-> MergeExternal(external, calls),
              new_files |-> UNION { c.files_to_process : c \in calls },
              calls |-> calls, escaped |-> FALSE]

\* An assignment in place of the update.
EnqueueAssign(queue, new_files) == new_files

\* 'files_to_process.update(new_files)'
Enqueue(queue, new_files) == queue \cup new_files

\* A look at an item that leaves it in the set.
PopKeeps(queue, item) == queue

\* 'files_to_process.pop()': the set without the item popped
Pop(queue, item) == queue \ {item}

\* A membership test that never succeeds (a str looked up among Paths).
AlreadyProcessedNever(current_file, processed) == FALSE

\* 'if current_file in self.processed_files: continue'
AlreadyProcessed(current_file, processed) == current_file \in processed

\* A seed that holds the first entry point only.
SeedItemsFirstOnly(eps) ==
    { <<<<StripSuffix(eps[1][Len(eps[1])])>>, eps[1]>> }

\* The seed of the queue: one (module_name, entry_point) per entry point.
SeedItems(eps) ==
    { <<<<StripSuffix(eps[i][Len(eps[i])])>>, eps[i]>> : i \in 1..Len(eps) }

Bump(n) == IF n < MaxCalls THEN n + 1 ELSE n

NoLast == [kind |-> "none", item |-> None, calls |-> {}]

\* The import statements of the files read so far.
RECURSIVE StatementCount(_, _)
StatementCount(files, texts) ==
    IF files = {} THEN 0
    ELSE LET f == CHOOSE x \in files : TRUE
         IN  Cardinality(texts[f].stmts) + StatementCount(files \ {f}, texts)

\* open(file_path).read(): the text is an input, drawn when the file is first
\* read and the same at every later read.
CanRead(file, text) ==
    IF file \in DOMAIN file_text
    THEN file_text[file] = text
    ELSE StatementCount(DOMAIN file_text, file_text) + Cardinality(text.stmts)
            <= MaxImports

\* The state after DependencyAnalyzer(entry_points, additional_paths).
Constructed ==
    /\ tree \in { t \in SUBSET CandidateFiles : Cardinality(t) <= MaxFiles }
    /\ file_text = << >>
    /\ environ \in Environments
    /\ entry_points \in { s \in SeqsUpTo(EntryCandidates, MaxEntryPoints) :
                            s # <<>> /\ Cardinality(Range(s)) = Len(s) }
    /\ additional_paths \in AdditionalPathLists
    /\ local_paths = LocalPathsOf(entry_points, additional_paths)
    /\ local_paths_order \in Permutations_(local_paths)
    /\ processed_files = {}
    /\ external_dependencies = {}
    /\ files_to_process = {}
    /\ pc = "start"
    /\ analyze_calls = [f \in CandidateFiles |-> 0]
    /\ last = NoLast

\* No main drives the analyzer, and one thread runs the loop.
NoDriver ==
    /\ main_pc = "idle"
    /\ exit_code = "none"
    /\ output_file = NoOutput
    /\ requirements = <<>>
    /\ registry = << >>
    /\ registry_queries = [n \in PackageNames |-> 0]
    /\ startup_environ = environ
    /\ workers = << >>

Init == Constructed /\ NoDriver

\* analyze_project, 'Initialize with entry points'
SeedQueue ==
    /\ pc = "start"
    /\ files_to_process' = SeedItems(entry_points)
    /\ pc' = "loop"
    /\ UNCHANGED << inputs, driver, file_text, processed_files, external_dependencies,
                    analyze_calls, last >>

\* A loop iteration that pops an item whose file is already processed.
SkipProcessed(item) ==
    /\ pc = "loop"
    /\ item \in files_to_process
    /\ AlreadyProcessed(item[2], processed_files)
    /\ files_to_process' = Pop(files_to_process, item)
    /\ last' = [kind |-> "skipped", item |-> item, calls |-> {}]
    /\ UNCHANGED << inputs, driver, file_text, processed_files, external_dependencies,
                    pc, analyze_calls >>

\* A loop iteration that pops an item whose file does not exist.
VisitMissing(item) ==
    /\ pc = "loop"
    /\ item \in files_to_process
    /\ ~AlreadyProcessed(item[2], processed_files)
    /\ ~Exists(item[2])
    /\ files_to_process' = Pop(files_to_process, item)
    /\ processed_files' = processed_files \cup {item[2]}
    /\ last' = [kind |-> "missing", item |-> item, calls |-> {}]
    /\ UNCHANGED << inputs, driver, file_text, external_dependencies, pc,
                    analyze_calls >>

\* A loop iteration that pops an item and analyzes its file, whose text is
\* `text`.
VisitFile(item, text) ==
    /\ pc = "loop"
    /\ item \in files_to_process
    /\ ~AlreadyProcessed(item[2], processed_files)
    /\ Exists(item[2])
    /\ CanRead(item[2], text)
    /\ LET r == analyze_file(text, external_dependencies)
       IN  /\ external_dependencies' = r.external
           /\ files_to_process' = Enqueue(Pop(files_to_process, item), r.new_files)
           /\ pc' = IF r.escaped THEN "raised" ELSE "loop"
           /\ last' = [kind |-> IF text.raises THEN "failed" ELSE "analyzed",
                       item |-> item, calls |-> r.calls]
    /\ file_text' = [f \in DOMAIN file_text \cup {item[2]} |->
                        IF f = item[2] THEN text ELSE file_text[f]]
    /\ processed_files' = processed_files \cup {item[2]}
    /\ analyze_calls' = [analyze_calls EXCEPT ![item[2]] = Bump(@)]
    /\ UNCHANGED << inputs, driver >>

\* 'while files_to_process' finds the queue empty.
Finish ==
    /\ pc = "loop"
    /\ files_to_process = {}
    /\ pc' = "done"
    /\ UNCHANGED << inputs, driver, file_text, processed_files, external_dependencies,
                    files_to_process, analyze_calls, last >>

Next ==
    \/ SeedQueue
    \/ \E item \in files_to_process : SkipProcessed(item)
    \/ \E item \in files_to_process : VisitMissing(item)
    \/ \E item \in files_to_process : \E text \in FileTexts : VisitFile(item, text)
    \/ Finish

Spec == Init /\ [][Next]_vars

\* The loop of analyze_project run from the seed with one fixed choice of
\* the item popped at each round, on the texts read so far.
RECURSIVE ReferenceRun(_, _, _, _)
ReferenceRun(queue, processed, external, popped) ==
    IF queue = {}
    THEN [processed |-> processed, external |-> external, popped |-> popped]
    ELSE LET item == CHOOSE i \in queue : TRUE
             current_file == item[2]
         IN  IF AlreadyProcessed(current_file, processed)
             THEN ReferenceRun(Pop(queue, item), processed, external, item)
             ELSE IF Exists(current_file) /\ current_file \in DOMAIN file_text
             THEN LET r == analyze_file(file_text[current_file], external)
                  IN  ReferenceRun(Enqueue(Pop(queue, item), r.new_files),
                                   processed \cup {current_file}, r.external, item)
             ELSE ReferenceRun(Pop(queue, item), processed \cup {current_file},
                               external, item)

\* analyze_project is a sequential loop: a step that can be taken is taken.
FairSpec == Spec /\ WF_vars(Next)

(***************************************************************************)
(* What the files read so far say, independently of the traversal.         *)
(***************************************************************************)
Analyzed(f) == f \in DOMAIN file_text /\ ~file_text[f].raises

\* The dotted names the import statements of f hand to the resolver.
NamesIn(f) ==
    IF f \in DOMAIN file_text
    THEN UNION { VisitedNames(s) : s \in file_text[f].stmts }
    ELSE {}

AllSearchRoots == Range(SearchPaths(local_paths_order))

\* The dotted name has a module file or a package initializer under a root.
ResolvesUnder(root, parts) ==
    \/ WithSuffixPy(root \o parts) \in tree
    \/ (root \o parts \o <<"__init__.py">>) \in tree

ResolvesLocally(parts) == \E root \in AllSearchRoots : ResolvesUnder(root, parts)

\* The files the imports of an analyzed file resolve to.
ImportedFiles(f) ==
    IF Analyzed(f)
    THEN { _find_module_file(local_paths_order, n)[1] :
             n \in { m \in NamesIn(f) : m[1] \notin _get_stdlib_modules
                                         /\ ResolvesLocally(m) } }
    ELSE {}

RECURSIVE ReachableFrom(_)
ReachableFrom(S) ==
    LET step == S \cup UNION { ImportedFiles(f) : f \in S }
    IN  IF step = S THEN S ELSE ReachableFrom(step)

(***************************************************************************)
(* C1: the visited set only grows, and analyze_file is called at most once *)
(* per file, however many times the file is enqueued.                      *)
(***************************************************************************)
C1_VisitedGrowsAnalyzedOnce ==
    [][ /\ processed_files \subseteq processed_files'
        /\ \A f \in CandidateFiles : analyze_calls'[f] <= 1 ]_vars

\* A file enqueued as the entry point b and again under the name a.b was
\* analyzed once and its second item discarded.
C1_Witness ==
    /\ last.kind = "skipped"
    /\ last.item = << <<"a", "b">>, <<"p", "a", "b.py">> >>
    /\ <<"p", "a", "b.py">> \in Range(entry_points)
    /\ analyze_calls[<<"p", "a", "b.py">>] = 1

(***************************************************************************)
(* C2: when analyze_project finishes, the visited set is the entry points  *)
(* plus the files reachable from them through imports that resolve to a    *)
(* local file, and each visited file that exists was analyzed exactly once.*)
(***************************************************************************)
C2_VisitedIsReachable ==
    pc = "done" =>
        /\ processed_files = ReachableFrom(Range(entry_points))
        /\ \A f \in processed_files :
               analyze_calls[f] = IF f \in tree THEN 1 ELSE 0

\* A run that ended having visited a file two imports away from the entry
\* point.
C2_Witness ==
    /\ pc = "done"
    /\ Len(entry_points) = 1
    /\ \E f \in processed_files, g \in processed_files :
          /\ f # entry_points[1] /\ g # entry_points[1] /\ f # g
          /\ f \in ImportedFiles(entry_points[1])
          /\ g \notin ImportedFiles(entry_points[1])
          /\ g \in ImportedFiles(f)

(***************************************************************************)
(* C3: when analyze_project finishes, the external-dependency set holds    *)
(* the top-level name of every import of an analyzed file that is not of   *)
(* the standard library and resolves to no local file, and nothing else.   *)
(***************************************************************************)
ExternalNamesOf(f) ==
    IF Analyzed(f)
    THEN { n[1] : n \in { m \in NamesIn(f) : m[1] \notin _get_stdlib_modules
                                             /\ ~ResolvesLocally(m) } }
    ELSE {}

C3_ExternalIsUnresolved ==
    pc = "done" =>
        external_dependencies = UNION { ExternalNamesOf(f) : f \in processed_files }

\* A run that ended with an external name imported by no entry point.
C3_Witness ==
    /\ pc = "done"
    /\ \E n \in external_dependencies :
          /\ \A e \in Range(entry_points) : n \notin ExternalNamesOf(e)
          /\ \E f \in processed_files \ Range(entry_points) : n \in ExternalNamesOf(f)

(***************************************************************************)
(* C4: analyze_project terminates with an empty work queue, also when      *)
(* local modules import each other in a cycle or a file imports itself.    *)
(***************************************************************************)
C4_Terminates == <>(pc = "done" /\ files_to_process = {})

\* A finished run in which an analyzed file imports itself, or two analyzed
\* files import each other.
C4_Witness ==
    /\ pc = "done"
    /\ files_to_process = {}
    /\ \E f \in processed_files : f \in ImportedFiles(f)
    /\ \E f \in processed_files, g \in processed_files :
          f # g /\ g \in ImportedFiles(f) /\ f \in ImportedFiles(g)

(***************************************************************************)
(* C5: whatever the order in which items are popped, the run ends with the *)
(* visited set and the external set of the run that pops in the reference  *)
(* order.                                                                  *)
(***************************************************************************)
C5_OrderIndependent ==
    pc = "done" =>
        LET ref == ReferenceRun(SeedItems(entry_points), {}, {}, None)
        IN  /\ processed_files = ref.processed
            /\ external_dependencies = ref.external

\* A finished run over several analyzed files whose last item is not the
\* last item of the reference order.
C5_Witness ==
    /\ pc = "done"
    /\ Cardinality(DOMAIN file_text) >= 2
    /\ external_dependencies # {}
    /\ last.item # ReferenceRun(SeedItems(entry_points), {}, {}, None).popped

(***************************************************************************)
(* C6: an import whose top-level segment is a standard-library name adds   *)
(* nothing to the external set, adds no file to the work queue and makes   *)
(* no call of _find_module_file, also when a local file of that name       *)
(* exists under a search root.                                             *)
(***************************************************************************)
C6_StdlibIgnored ==
    /\ \A c \in last.calls :
          c.name[1] \in StdlibDirModules \cup BuiltinModuleNames =>
              /\ ~c.find_called
              /\ c.external_imports = {}
              /\ c.files_to_process = {}
    /\ external_dependencies \cap (StdlibDirModules \cup BuiltinModuleNames) = {}
    /\ \A item \in files_to_process :
          item[1][1] \in StdlibDirModules \cup BuiltinModuleNames =>
              item \in SeedItems(entry_points)

\* A file importing os was analyzed while p/os.py exists and p is a search
\* root.
C6_Witness ==
    /\ last.kind = "analyzed"
    /\ \E c \in last.calls : c.name = <<"os">>
    /\ <<"p", "os.py">> \in tree
    /\ P \in AllSearchRoots

(***************************************************************************)
(* C7: an import that is not of the standard library and resolves under no *)
(* search root adds its first segment, and that name alone, to the         *)
(* external set, and adds no file to the work queue.                       *)
(***************************************************************************)
C7_UnresolvedAddsTopLevel ==
    \A c \in last.calls :
        (c.name[1] \notin StdlibDirModules \cup BuiltinModuleNames
         /\ ~ResolvesLocally(c.name)) =>
            /\ c.external_imports = {c.name[1]}
            /\ c.files_to_process = {}
            /\ (last.kind = "analyzed" => c.name[1] \in external_dependencies)

\* The two-segment name a.b resolved nowhere and added the name a.
C7_Witness ==
    /\ last.kind = "analyzed"
    /\ \E c \in last.calls :
          /\ c.name = <<"a", "b">>
          /\ c.external_imports = {"a"}
    /\ "a" \in external_dependencies
    /\ "b" \notin external_dependencies

(***************************************************************************)
(* C8: under one search root, the resolver returns the module file         *)
(* root/s1/.../sn.py, not a package, when that file exists, whatever       *)
(* package initializers exist beside or above it; it returns the           *)
(* initializer root/s1/.../sn/__init__.py, a package, only when the module *)
(* file is absent and the initializer exists.                              *)
(***************************************************************************)
C8_ModuleBeforePackage ==
    Len(SearchPaths(local_paths_order)) = 1 =>
        LET root == SearchPaths(local_paths_order)[1]
        IN  \A c \in last.calls :
                c.find_called =>
                    LET module_file == WithSuffixPy(root \o c.name)
                        init_file == root \o c.name \o <<"__init__.py">>
                    IN  c.found = IF module_file \in tree THEN <<module_file, FALSE>>
                                  ELSE IF init_file \in tree THEN <<init_file, TRUE>>
                                  ELSE None

\* Under the one root p, the name a resolved to p/a.py although the package
\* p/a/__init__.py exists.
C8_Witness ==
    /\ SearchPaths(local_paths_order) = <<P>>
    /\ {<<"p", "a.py">>, <<"p", "a", "__init__.py">>} \subseteq tree
    /\ \E c \in last.calls :
          c.name = <<"a">> /\ c.found = << <<"p", "a.py">>, FALSE >>

\* The roots in the order of the inputs: the parents of the entry points,
\* the additional paths, the paths of PYTHONPATH and of PATH.
RootsInGivenOrder ==
    [i \in 1..Len(entry_points) |-> Parent(entry_points[i])]
    \o additional_paths
    \o EnvPaths(environ.PYTHONPATH) \o EnvPaths(environ.PATH)

(***************************************************************************)
(* C9: the search roots are tried in the order entry-point parents (in     *)
(* entry-point order), then the extra paths (in the order given), then the *)
(* paths of the environment, and a name that resolves under several roots  *)
(* resolves to the file under the earliest of them.                        *)
(***************************************************************************)
C9_RootsInGivenOrder ==
    \A c \in last.calls :
        c.find_called => c.found = FindFrom(RootsInGivenOrder, 1, c.name)

(***************************************************************************)
(* C10: a loop round whose file raises leaves the external set unchanged,  *)
(* removes the popped item and adds none, keeps the file in the visited    *)
(* set and leaves analyze_project in its loop with the other items.        *)
(***************************************************************************)
C10_FailureIsolated ==
    [][ (last'.kind = "failed" /\ last' # last) =>
            /\ external_dependencies' = external_dependencies
            /\ files_to_process' = files_to_process \ {last'.item}
            /\ processed_files' = processed_files \cup {last'.item[2]}
            /\ pc' = "loop" ]_vars

\* A run that went on after a file raised: another file was analyzed after
\* it and the run finished, without the name the failed file imports.
C10_Witness ==
    /\ pc = "done"
    /\ last.kind = "analyzed"
    /\ \E f \in processed_files :
          /\ f \in DOMAIN file_text
          /\ file_text[f].raises
          /\ ~ResolvesLocally(<<"a">>)
    /\ "a" \notin external_dependencies

(***************************************************************************)
(* generate_requirements, write_requirements and the two main functions    *)
(***************************************************************************)
\* What metadata.version can answer; None stands for PackageNotFoundError.
Versions == { None, <<"1.3.0">> }

\* The code points of a package name.
CodePoints(name) ==
    CASE name = "a" -> <<97>>
      [] name = "ab" -> <<97, 98>>
      [] name = "c" -> <<99>>

RECURSIVE SeqLess(_, _)
SeqLess(x, y) ==
    IF y = <<>> THEN FALSE
    ELSE IF x = <<>> THEN TRUE
    ELSE IF x[1] # y[1] THEN x[1] < y[1]
    ELSE SeqLess(Tail(x), Tail(y))

\* The order of the (package, version) tuples of one dict: the packages are
\* distinct, so the comparison of two tuples is that of their packages.
ItemLess(x, y) == SeqLess(CodePoints(x[1]), CodePoints(y[1]))

Remove(items, i) == SubSeq(items, 1, i - 1) \o SubSeq(items, i + 1, Len(items))

\* The items in the order of insertion.
Unsorted(items) == items

\* sorted(requirements.items())
RECURSIVE PySorted(_)
PySorted(items) ==
    IF items = <<>> THEN <<>>
    ELSE LET i == CHOOSE k \in 1..Len(items) :
                      \A j \in 1..Len(items) : ~ItemLess(items[j], items[k])
         IN  <<items[i]>> \o PySorted(Remove(items, i))

\* DependencyAnalyzer.get_installed_version
get_installed_version(reg, package) == reg[package]

\* 'if version:'
Truthy(version) == version \notin { None, <<"">> }

\* DependencyAnalyzer.generate_requirements: the dict, as the sequence of its
\* items in the order of insertion, which is the order in which the loop
\* meets the names of the set external_dependencies.
generate_requirements(order, reg) ==
    SelectSeq([i \in 1..Len(order) |->
                  <<order[i], get_installed_version(reg, order[i])>>],
              LAMBDA item : Truthy(item[2]))

\* f"{package}=={version}\n" or f"{package}\n"
FormatLine(package, version) ==
    IF Truthy(version) THEN package \o "==" \o version[1] ELSE package

\* The lines the loop of write_requirements writes, in order.
RequirementLines(reqs) ==
    LET items == PySorted(reqs)
    IN  [i \in 1..Len(items) |-> FormatLine(items[i][1], items[i][2])]

\* How the 'with open(output_file, 'w')' block of write_requirements can go:
\* open raises, or the write after `written` lines raises, or nothing does.
WriteOutcomes(lines) ==
    { [step |-> "open", written |-> 0], [step |-> "none", written |-> Len(lines)] }
    \cup { [step |-> "write", written |-> k] : k \in 0..(Len(lines) - 1) }

\* DependencyAnalyzer.write_requirements, after its call of
\* generate_requirements: the file it leaves and whether it raised.
write_requirements(reqs, file, outcome) ==
    IF outcome.step = "open"
    THEN [file |-> file, raised |-> TRUE]
    ELSE [file |-> [exists |-> TRUE,
                    lines |-> SubSeq(RequirementLines(reqs), 1, outcome.written)],
          raised |-> outcome.step = "write"]

\* The registries that answer as `reg` did and answer for `names` too.
Lookups(reg, names) ==
    { r \in [DOMAIN reg \cup names -> Versions] :
          \A n \in DOMAIN reg : r[n] = reg[n] }

Queried(queries, names) ==
    [n \in DOMAIN queries |-> IF n \in names THEN Bump(queries[n]) ELSE queries[n]]

\* What main does not touch outside analyze_project.
analyzer_state == << inputs, file_text, processed_files, external_dependencies,
                     files_to_process, pc, analyze_calls, last >>

\* The import statements of the files main is run on.
MainStatements ==
    { ImportStmt(<<<<"a">>>>), ImportStmt(<<<<"ab">>>>), ImportStmt(<<<<"c">>>>) }

MainTexts == { [raises |-> FALSE, stmts |-> s] : s \in SUBSET MainStatements }

\* The process is started on analyzer.main or on cli.main; the analyzer is
\* the one main builds once the entry points are validated.
MainInit ==
    /\ Constructed
    /\ environ = [PYTHONPATH |-> <<>>, PATH |-> <<>>]
    /\ additional_paths = <<>>
    /\ main_pc \in { "validate", "cli_validate" }
    /\ exit_code = "none"
    /\ output_file \in { NoOutput, OldOutput }
    /\ requirements = <<>>
    /\ registry = << >>
    /\ registry_queries = [n \in PackageNames |-> 0]
    /\ startup_environ = environ
    /\ workers = << >>

\* A validation that looks at the first entry point only.
EntryPointsExistFirstOnly(paths) == Exists(paths[1])

\* 'for entry_point in args.entry_points: if not os.path.exists(entry_point)'
\* in analyzer.main, validate_paths in cli.py: no path is missing.
EntryPointsExist(paths) == \A i \in 1..Len(paths) : Exists(paths[i])

\* analyzer.main, 'Validate entry points': sys.exit(1) at the first that is
\* missing.
MainValidate ==
    /\ main_pc = "validate"
    /\ IF EntryPointsExist(entry_points)
       THEN main_pc' = "analyze" /\ exit_code' = exit_code
       ELSE main_pc' = "exited" /\ exit_code' = "1"
    /\ UNCHANGED << analyzer_state, output_file, requirements, registry,
                    registry_queries, startup_environ, workers >>

\* analyzer.main, 'requirements = analyzer.generate_requirements()', once
\* analyze_project has returned.
MainGenerate(order, reg) ==
    /\ main_pc = "analyze"
    /\ pc = "done"
    /\ requirements' = generate_requirements(order, reg)
    /\ registry' = reg
    /\ registry_queries' = Queried(registry_queries, external_dependencies)
    /\ main_pc' = "write"
    /\ UNCHANGED << analyzer_state, exit_code, output_file, startup_environ,
                    workers >>

\* analyzer.main, 'analyzer.write_requirements(args.output)' to the end:
\* write_requirements calls generate_requirements itself; an exception
\* leaves main uncaught and the interpreter exits with status 1.
MainWrite(order, reg, outcome) ==
    /\ main_pc = "write"
    /\ LET reqs == generate_requirements(order, reg)
           w == write_requirements(reqs, output_file, outcome)
       IN  /\ outcome \in WriteOutcomes(RequirementLines(reqs))
           /\ requirements' = reqs
           /\ output_file' = w.file
           /\ exit_code' = IF w.raised THEN "1" ELSE "0"
    /\ registry' = reg
    /\ registry_queries' = Queried(registry_queries, external_dependencies)
    /\ main_pc' = "exited"
    /\ UNCHANGED << analyzer_state, startup_environ, workers >>

\* cli.main, validate_paths(args.entry_points): 'return 1' on a missing one.
CliValidate ==
    /\ main_pc = "cli_validate"
    /\ IF EntryPointsExist(entry_points)
       THEN main_pc' = "cli_analyze" /\ exit_code' = exit_code
       ELSE main_pc' = "exited" /\ exit_code' = "1"
    /\ UNCHANGED << analyzer_state, output_file, requirements, registry,
                    registry_queries, startup_environ, workers >>

\* cli.main, the try block: DependencyAnalyzer(search_paths) gives __init__
\* one argument where it takes two, the TypeError is caught by
\* 'except Exception' and main returns 1.
CliAnalyze ==
    /\ main_pc = "cli_analyze"
    /\ main_pc' = "exited"
    /\ exit_code' = "1"
    /\ UNCHANGED << analyzer_state, output_file, requirements, registry,
                    registry_queries, startup_environ, workers >>

\* Under main the loop of analyze_project pops no missing file: the entry
\* points have been validated, the resolver returns files that exist, and
\* the tree does not change.
MainNext ==
    \/ MainValidate
    \/ main_pc = "analyze" /\ SeedQueue
    \/ main_pc = "analyze" /\ \E item \in files_to_process : SkipProcessed(item)
    \/ main_pc = "analyze" /\ \E item \in files_to_process :
                                  \E text \in MainTexts : VisitFile(item, text)
    \/ main_pc = "analyze" /\ Finish
    \/ \E order \in Permutations_(external_dependencies) :
           \E reg \in Lookups(registry, external_dependencies) :
               MainGenerate(order, reg)
    \/ \E order \in Permutations_(external_dependencies) :
           \E reg \in Lookups(registry, external_dependencies) :
               \E outcome \in WriteOutcomes(RequirementLines(generate_requirements(order, reg))) :
                   MainWrite(order, reg, outcome)
    \/ CliValidate
    \/ CliAnalyze

MainSpec == MainInit /\ [][MainNext]_vars

(***************************************************************************)
(* C11: when main has written the requirements, every external name is in  *)
(* the mapping, with the version the registry gave or with none, and has   *)
(* its line in the output: name==version for a known version, the bare     *)
(* name for a name the registry does not know.                             *)
(***************************************************************************)
C11_UnknownVersionRetained ==
    (main_pc = "exited" /\ exit_code = "0") =>
        \A n \in external_dependencies :
            /\ \E i \in 1..Len(requirements) : requirements[i] = <<n, registry[n]>>
            /\ \E j \in 1..Len(output_file.lines) :
                  output_file.lines[j] = IF registry[n] = None THEN n
                                         ELSE n \o "==" \o registry[n][1]

\* The package a line of the output names: the text before '==', or the line.
PackageOf(line) ==
    CHOOSE n \in PackageNames :
        \/ line = n
        \/ \E v \in Versions \ {None} : line = n \o "==" \o v[1]

\* The mapping with its items inserted in another order.
Reordered(reqs) ==
    { [i \in 1..Len(reqs) |-> reqs[q[i]]] : q \in Permutations_(1..Len(reqs)) }

(***************************************************************************)
(* C12: the lines main has written are in strictly ascending order of      *)
(* package name, so no name has two lines; there is one line per name of   *)
(* the mapping, and the same lines come out whatever the order in which    *)
(* the names entered the mapping.                                          *)
(***************************************************************************)
C12_LinesSortedUnique ==
    (main_pc = "exited" /\ exit_code = "0") =>
        LET lines == output_file.lines
        IN  /\ \A i \in 1..Len(lines) : \A j \in 1..Len(lines) :
                  i < j => SeqLess(CodePoints(PackageOf(lines[i])),
                                   CodePoints(PackageOf(lines[j])))
            /\ { PackageOf(lines[i]) : i \in 1..Len(lines) }
                   = { requirements[i][1] : i \in 1..Len(requirements) }
            /\ \A r \in Reordered(requirements) : RequirementLines(r) = lines

\* Requirements written for several names that entered the mapping in
\* descending order, one of them imported by two files.
C12_Witness ==
    /\ main_pc = "exited"
    /\ exit_code = "0"
    /\ Len(requirements) >= 2
    /\ requirements[1][1] = "c"
    /\ Len(output_file.lines) = Len(requirements)
    /\ \E f \in DOMAIN file_text, g \in DOMAIN file_text :
          f # g /\ <<"c">> \in NamesIn(f) /\ <<"c">> \in NamesIn(g)

(***************************************************************************)
(* C13: when an entry point does not exist, main takes no step but its     *)
(* validation and ends with exit code 1: the traversal is not started, no  *)
(* file is read or parsed, the registry is not queried, and no step        *)
(* creates or changes the output file.                                     *)
(***************************************************************************)
SomeEntryMissing == \E i \in 1..Len(entry_points) : entry_points[i] \notin tree

C13_MissingEntryAborts ==
    /\ [](SomeEntryMissing =>
            /\ main_pc \in { "validate", "cli_validate", "exited" }
            /\ (main_pc = "exited" => exit_code = "1")
            /\ pc = "start"
            /\ file_text = << >>
            /\ \A f \in CandidateFiles : analyze_calls[f] = 0
            /\ \A n \in PackageNames : registry_queries[n] = 0)
    /\ [][SomeEntryMissing => output_file' = output_file]_vars

\* main ended with exit code 1 on two entry points of which the first
\* exists and the second does not, an output file of an earlier run intact.
C13_Witness ==
    /\ main_pc = "exited"
    /\ exit_code = "1"
    /\ Len(entry_points) = 2
    /\ entry_points[1] \in tree
    /\ entry_points[2] \notin tree
    /\ output_file = OldOutput

(***************************************************************************)
(* C14: a step of main that does not end the run with exit code 0 leaves   *)
(* the output file as it was, so a run that a failure ends with exit code  *)
(* 1 has neither created the file nor truncated it nor written part of     *)
(* its lines.                                                              *)
(***************************************************************************)
C14_FailureLeavesNoPartialOutput ==
    [][exit_code' # "0" => output_file' = output_file]_vars

(***************************************************************************)
(* C18: over a run of main, metadata.version is called at most once for    *)
(* each external name.                                                     *)
(***************************************************************************)
C18_RegistryQueriedOnce ==
    \A n \in PackageNames : registry_queries[n] <= 1

\* The files the imports of an analyzed file resolve to when the set
\* local_paths is iterated in the given order.
ImportedFilesUnder(order, f) ==
    IF Analyzed(f)
    THEN { _find_module_file(order, n)[1] :
             n \in { m \in NamesIn(f) : /\ m[1] \notin _get_stdlib_modules
                                        /\ _find_module_file(order, m) # None } }
    ELSE {}

\* The files a run visits from S under that order, as far as the texts read
\* tell.
RECURSIVE VisitedUnder(_, _)
VisitedUnder(order, S) ==
    LET step == S \cup UNION { ImportedFilesUnder(order, f) : f \in S }
    IN  IF step = S THEN S ELSE VisitedUnder(order, step)

(***************************************************************************)
(* C16: a finished run has visited the files that a run on the same        *)
(* inputs, tree and environment visits under any other iteration order of  *)
(* the set of local search roots, so two runs end with the same visited    *)
(* set.                                                                    *)
(***************************************************************************)
C16_RunsAgree ==
    pc = "done" =>
        \A order \in Permutations_(local_paths) :
            VisitedUnder(order, Range(entry_points)) = processed_files

(***************************************************************************)
(* A run during which the environment of the process changes.              *)
(***************************************************************************)
\* os.environ is changed (by another thread, or by code the process loads)
\* while analyze_project is in its loop.
ChangeEnvironment(value) ==
    /\ pc = "loop"
    /\ value # environ
    /\ environ' = value
    /\ UNCHANGED << tree, file_text, entry_points, additional_paths, local_paths,
                    local_paths_order, processed_files, external_dependencies,
                    files_to_process, pc, analyze_calls, last, driver >>

EnvNext ==
    \/ Next
    \/ \E value \in Environments : ChangeEnvironment(value)

EnvSpec == Init /\ [][EnvNext]_vars

\* The search roots as they were when the run started.
StartupSearchPaths ==
    local_paths_order \o EnvPaths(startup_environ.PYTHONPATH)
                      \o EnvPaths(startup_environ.PATH)

(***************************************************************************)
(* C19: every import is resolved against the search roots the run started  *)
(* with, also after the environment has changed: _find_module_file returns *)
(* what the search under the roots of the start returns.                   *)
(***************************************************************************)
C19_ClassifiedAsAtStart ==
    \A c \in last.calls :
        c.find_called => c.found = FindFrom(StartupSearchPaths, 1, c.name)

(***************************************************************************)
(* A project with packages two levels deep: p/main.py beside the package   *)
(* p/shared, which holds the packages database and utils.                  *)
(***************************************************************************)
Main == <<"p", "main.py">>
SharedInit == <<"p", "shared", "__init__.py">>
DatabaseInit == <<"p", "shared", "database", "__init__.py">>
DatabaseConnect == <<"p", "shared", "database", "connect.py">>
UtilsInit == <<"p", "shared", "utils", "__init__.py">>
UtilsHelpers == <<"p", "shared", "utils", "helpers.py">>

ProjectFiles ==
    { Main, SharedInit, DatabaseInit, DatabaseConnect, UtilsInit, UtilsHelpers }

\* 'import os, shared.database.connect, requests'
ImportOsConnectRequests ==
    ImportStmt(<< <<"os">>, <<"shared", "database", "connect">>, <<"requests">> >>)

\* 'import sqlalchemy'
ImportSqlalchemy == ImportStmt(<< <<"sqlalchemy">> >>)

\* 'import shared.database'
ImportDatabase == ImportStmt(<< <<"shared", "database">> >>)

\* 'from shared.utils import helpers'
FromUtilsImportHelpers == ImportFromStmt(<<"shared", "utils">>, <<"helpers">>, 0)

\* 'from shared.database import connect'
FromDatabaseImportConnect == ImportFromStmt(<<"shared", "database">>, <<"connect">>, 0)

\* 'from . import x'
FromDotImportX == ImportFromStmt(None, <<"x">>, 1)

\* 'from .helpers import x'
FromDotHelpersImportX == ImportFromStmt(<<"helpers">>, <<"x">>, 1)

\* 'from ..shared.database import x'
FromDotsDatabaseImportX == ImportFromStmt(<<"shared", "database">>, <<"x">>, 2)

ProjectStatements ==
    { ImportOsConnectRequests, ImportSqlalchemy, ImportDatabase,
      FromUtilsImportHelpers, FromDatabaseImportConnect,
      FromDotImportX, FromDotHelpersImportX, FromDotsDatabaseImportX }

ProjectTexts == { [raises |-> FALSE, stmts |-> s] : s \in SUBSET ProjectStatements }

\* DependencyAnalyzer(['p/main.py'], []) with PYTHONPATH and PATH unset.
ProjectInit ==
    /\ tree \in { t \in SUBSET ProjectFiles : Cardinality(t) <= MaxFiles }
    /\ file_text = << >>
    /\ environ = [PYTHONPATH |-> <<>>, PATH |-> <<>>]
    /\ entry_points = << Main >>
    /\ additional_paths = <<>>
    /\ local_paths = LocalPathsOf(entry_points, additional_paths)
    /\ local_paths_order \in Permutations_(local_paths)
    /\ processed_files = {}
    /\ external_dependencies = {}
    /\ files_to_process = {}
    /\ pc = "start"
    /\ analyze_calls = [f \in ProjectFiles |-> 0]
    /\ last = NoLast
    /\ NoDriver

ProjectNext ==
    \/ SeedQueue
    \/ \E item \in files_to_process : SkipProcessed(item)
    \/ \E item \in files_to_process : VisitMissing(item)
    \/ \E item \in files_to_process : \E text \in ProjectTexts : VisitFile(item, text)
    \/ Finish

ProjectSpec == ProjectInit /\ [][ProjectNext]_vars

(***************************************************************************)
(* C15: main.py imports os, shared.database.connect and requests;          *)
(* shared/database is a package whose __init__.py imports sqlalchemy, and  *)
(* nothing named connect lies beneath it.  The finished run has the        *)
(* external set {requests, sqlalchemy} and has visited main.py and         *)
(* shared/database/__init__.py.                                            *)
(***************************************************************************)
C15_SharedDatabaseScenario ==
    ( /\ pc = "done"
      /\ {Main, DatabaseInit} \subseteq tree
      /\ DatabaseConnect \notin tree
      /\ file_text[Main].stmts = {ImportOsConnectRequests}
      /\ (DatabaseInit \in DOMAIN file_text =>
             file_text[DatabaseInit].stmts = {ImportSqlalchemy}) )
    => /\ external_dependencies = {"requests", "sqlalchemy"}
       /\ {Main, DatabaseInit} \subseteq processed_files

(***************************************************************************)
(* C17: when a file is analyzed, a statement 'from P import N' whose P     *)
(* resolves to a package and for which P/N.py exists has the file P/N.py   *)
(* recorded for it.                                                        *)
(***************************************************************************)
C17_FromImportRecordsModule ==
    last.kind = "analyzed" =>
        \A stmt \in file_text[last.item[2]].stmts :
            stmt.form = "from" =>
                \A c \in last.calls :
                    (c.name = stmt.names[1] /\ c.found # None /\ c.found[2]) =>
                        \A k \in 1..Len(stmt.imported) :
                            LET module_file == Parent(c.found[1])
                                                 \o << stmt.imported[k] \o ".py" >>
                            IN  module_file \in tree =>
                                    \E item \in c.files_to_process :
                                        item[2] = module_file

(***************************************************************************)
(* The loop of analyze_project run by several threads on the same          *)
(* DependencyAnalyzer and the same files_to_process, one statement of the  *)
(* loop body at a time.                                                    *)
(***************************************************************************)
Workers == 1..NumWorkers

WorkerAt(w, at) == workers[w].at = at

\* The worker moves to `at` holding `item` and `new_files`.
Moved(w, at, item, new_files) ==
    [workers EXCEPT ![w] = [at |-> at, item |-> item, new_files |-> new_files]]

ConcStatements ==
    { ImportStmt(<<<<"a">>>>), ImportStmt(<<<<"c">>>>),
      ImportFromStmt(<<"a", "b">>, <<"x">>, 0) }

ConcTexts == { [raises |-> FALSE, stmts |-> s] : s \in SUBSET ConcStatements }

\* The queue is seeded by the thread that starts the workers.
ConcInit ==
    /\ Constructed
    /\ environ = [PYTHONPATH |-> <<>>, PATH |-> <<>>]
    /\ additional_paths = <<>>
    /\ main_pc = "idle"
    /\ exit_code = "none"
    /\ output_file = NoOutput
    /\ requirements = <<>>
    /\ registry = << >>
    /\ registry_queries = [n \in PackageNames |-> 0]
    /\ startup_environ = environ
    /\ workers = [w \in Workers |-> [at |-> "while", item |-> None, new_files |-> {}]]

conc_fixed == << inputs, main_pc, exit_code, output_file, requirements, registry,
                 registry_queries, startup_environ, pc >>

\* 'while files_to_process:'
WorkerWhile(w) ==
    /\ pc = "loop"
    /\ WorkerAt(w, "while")
    /\ workers' = Moved(w, IF files_to_process # {} THEN "pop" ELSE "done", None, {})
    /\ UNCHANGED << conc_fixed, file_text, processed_files, external_dependencies,
                    files_to_process, analyze_calls, last >>

\* 'module_name, current_file = files_to_process.pop()'
WorkerPop(w, item) ==
    /\ WorkerAt(w, "pop")
    /\ item \in files_to_process
    /\ files_to_process' = Pop(files_to_process, item)
    /\ workers' = Moved(w, "check", item, {})
    /\ UNCHANGED << conc_fixed, file_text, processed_files, external_dependencies,
                    analyze_calls, last >>

\* The same statement on a set another worker has emptied since the test of
\* the while: KeyError, which ends the worker.
WorkerPopEmpty(w) ==
    /\ WorkerAt(w, "pop")
    /\ files_to_process = {}
    /\ workers' = Moved(w, "raised", None, {})
    /\ UNCHANGED << conc_fixed, file_text, processed_files, external_dependencies,
                    files_to_process, analyze_calls, last >>

\* 'if current_file in self.processed_files: continue'
WorkerCheck(w) ==
    /\ WorkerAt(w, "check")
    /\ workers' = IF AlreadyProcessed(workers[w].item[2], processed_files)
                  THEN Moved(w, "while", None, {})
                  ELSE Moved(w, "add", workers[w].item, {})
    /\ UNCHANGED << conc_fixed, file_text, processed_files, external_dependencies,
                    files_to_process, analyze_calls, last >>

\* 'self.processed_files.add(current_file)'
WorkerAdd(w) ==
    /\ WorkerAt(w, "add")
    /\ processed_files' = processed_files \cup {workers[w].item[2]}
    /\ workers' = Moved(w, "exists", workers[w].item, {})
    /\ UNCHANGED << conc_fixed, file_text, external_dependencies, files_to_process,
                    analyze_calls, last >>

\* 'if current_file.exists():'
WorkerExists(w) ==
    /\ WorkerAt(w, "exists")
    /\ workers' = IF Exists(workers[w].item[2])
                  THEN Moved(w, "analyze", workers[w].item, {})
                  ELSE Moved(w, "while", None, {})
    /\ UNCHANGED << conc_fixed, file_text, processed_files, external_dependencies,
                    files_to_process, analyze_calls, last >>

\* 'new_files = self.analyze_file(current_file)', with the in-place update
\* of external_dependencies it makes.
WorkerAnalyze(w, text) ==
    /\ WorkerAt(w, "analyze")
    /\ CanRead(workers[w].item[2], text)
    /\ LET r == analyze_file(text, external_dependencies)
       IN  /\ external_dependencies' = r.external
           /\ workers' = Moved(w, "enqueue", workers[w].item, r.new_files)
           /\ last' = [kind |-> "analyzed", item |-> workers[w].item,
                       calls |-> r.calls]
    /\ file_text' = [f \in DOMAIN file_text \cup {workers[w].item[2]} |->
                        IF f = workers[w].item[2] THEN text ELSE file_text[f]]
    /\ analyze_calls' = [analyze_calls EXCEPT ![workers[w].item[2]] = Bump(@)]
    /\ UNCHANGED << conc_fixed, processed_files, files_to_process >>

\* 'files_to_process.update(new_files)'
WorkerEnqueue(w) ==
    /\ WorkerAt(w, "enqueue")
    /\ files_to_process' = Enqueue(files_to_process, workers[w].new_files)
    /\ workers' = Moved(w, "while", None, {})
    /\ UNCHANGED << conc_fixed, file_text, processed_files, external_dependencies,
                    analyze_calls, last >>

ConcNext ==
    \/ SeedQueue
    \/ \E w \in Workers : WorkerWhile(w)
    \/ \E w \in Workers : \E item \in files_to_process : WorkerPop(w, item)
    \/ \E w \in Workers : WorkerPopEmpty(w)
    \/ \E w \in Workers : WorkerCheck(w)
    \/ \E w \in Workers : WorkerAdd(w)
    \/ \E w \in Workers : WorkerExists(w)
    \/ \E w \in Workers : \E text \in ConcTexts : WorkerAnalyze(w, text)
    \/ \E w \in Workers : WorkerEnqueue(w)

ConcSpec == ConcInit /\ [][ConcNext]_vars

(***************************************************************************)
(* C20: with several workers in the loop, no file is analyzed more than    *)
(* once, and every external name of a file that has been analyzed is in    *)
(* the external set.                                                       *)
(***************************************************************************)
C20_NoDoubleParseNoLostName ==
    /\ \A f \in CandidateFiles : analyze_calls[f] <= 1
    /\ \A f \in DOMAIN file_text : ExternalNamesOf(f) \subseteq external_dependencies

\* Under main every file the loop pops exists.
MainPopsExistingFiles ==
    main_pc # "idle" => \A item \in files_to_process : item[2] \in tree

(***************************************************************************)
(* The resolver with its module test and its package test alone.           *)
(***************************************************************************)
ModuleOrPackage(root, parts) ==
    IF WithSuffixPy(root \o parts) \in tree
    THEN << WithSuffixPy(root \o parts), FALSE >>
    ELSE IF (root \o parts \o <<"__init__.py">>) \in tree
    THEN << root \o parts \o <<"__init__.py">>, TRUE >>
    ELSE None

RECURSIVE FirstModuleOrPackage(_, _, _)
FirstModuleOrPackage(roots, k, parts) ==
    IF k > Len(roots) THEN None
    ELSE IF ModuleOrPackage(roots[k], parts) # None
    THEN ModuleOrPackage(roots[k], parts)
    ELSE FirstModuleOrPackage(roots, k + 1, parts)

\* The dotted names and the roots the walk is examined on.
ProjectNames ==
    UNION { { n \in Range(stmt.names) : n # None } : stmt \in ProjectStatements }
    \cup { <<"shared">>, <<"database", "connect">>, <<"utils", "helpers">> }

ProjectRoots == { P, <<"p", "shared">>, <<"p", "shared", "database">> }

(***************************************************************************)
(* C21: under every root and for every dotted name, when neither the       *)
(* module file nor the package initializer of the name exists, the prefix  *)
(* walk finds nothing; and every call of _find_module_file returns what    *)
(* the module test and the package test alone return over the roots.       *)
(***************************************************************************)
C21_PrefixWalkNeverDecides ==
    /\ \A root \in ProjectRoots \cup AllSearchRoots : \A parts \in ProjectNames :
          ModuleOrPackage(root, parts) = None => PrefixWalk(root, parts) = None
    /\ \A c \in last.calls :
          c.find_called =>
              c.found = FirstModuleOrPackage(SearchPaths(local_paths_order), 1, c.name)

\* shared.database.connect was looked up with the initializers of shared and
\* of shared/database in place, so that the walk went into both packages,
\* and resolved to nothing.
C21_Witness ==
    /\ last.kind = "analyzed"
    /\ {SharedInit, DatabaseInit} \subseteq tree
    /\ \E c \in last.calls :
          /\ c.name = <<"shared", "database", "connect">>
          /\ c.find_called
          /\ c.found = None

\* The file is the one some import of an analyzed, visited file resolves to.
ImportedByItsOwnPath(file) ==
    \E g \in processed_files : \E n \in NamesIn(g) :
        /\ Analyzed(g)
        /\ n[1] \notin StdlibDirModules \cup BuiltinModuleNames
        /\ FirstModuleOrPackage(SearchPaths(local_paths_order), 1, n) # None
        /\ FirstModuleOrPackage(SearchPaths(local_paths_order), 1, n)[1] = file

(***************************************************************************)
(* C22: an import that resolves to a local file adds that file, under the  *)
(* name imported, and nothing else to the work queue; a file is in the     *)
(* queue or in the visited set only as an entry point or as the file some  *)
(* import resolves to, so the initializer of a parent package is there     *)
(* only when the package is imported by its own dotted path.               *)
(***************************************************************************)
C22_ResolvedImportEnqueuesOneFile ==
    /\ \A c \in last.calls :
          c.found # None => c.files_to_process = { <<c.name, c.found[1]>> }
    /\ \A item \in files_to_process :
          item \in SeedItems(entry_points) \/ ImportedByItsOwnPath(item[2])
    /\ \A f \in processed_files :
          f \in Range(entry_points) \/ ImportedByItsOwnPath(f)

\* A finished run that visited shared/database/__init__.py for an import of
\* shared.database and left the existing shared/__init__.py unvisited.
C22_Witness ==
    /\ pc = "done"
    /\ SharedInit \in tree
    /\ SharedInit \notin processed_files
    /\ DatabaseInit \in processed_files
    /\ <<"shared", "database">> \in NamesIn(Main)

\* The from-imports of a level above 0 in the file analyzed last.
RelativeImports ==
    { stmt \in file_text[last.item[2]].stmts : stmt.form = "from" /\ stmt.level > 0 }

(***************************************************************************)
(* C23: when a file is analyzed, every name handed to _process_import is   *)
(* the module of one of its statements, so that 'from . import x', which   *)
(* has none, adds nothing; and 'from .m import x' is classified as the     *)
(* absolute name m: ignored if m is of the standard library, else          *)
(* enqueued as the file m resolves to under the search roots, else made    *)
(* external under its first segment, whatever the level and whatever lies  *)
(* beside the importing file.                                              *)
(***************************************************************************)
C23_RelativeLevelIgnored ==
    last.kind = "analyzed" =>
        /\ \A c \in last.calls :
              \E stmt \in file_text[last.item[2]].stmts :
                  c.name # None /\ c.name \in Range(stmt.names)
        /\ \A stmt \in RelativeImports :
              stmt.names[1] # None =>
                  \E c \in last.calls :
                      LET m == stmt.names[1]
                          file == FirstModuleOrPackage(SearchPaths(local_paths_order), 1, m)
                      IN  /\ c.name = m
                          /\ c.files_to_process =
                                 IF m[1] \notin StdlibDirModules /\ file # None
                                 THEN { <<m, file[1]>> } ELSE {}
                          /\ c.external_imports =
                                 IF m[1] \notin StdlibDirModules /\ file = None
                                 THEN { m[1] } ELSE {}
                          /\ c.external_imports \subseteq external_dependencies
                          /\ c.files_to_process \subseteq files_to_process

\* shared/utils/__init__.py holding 'from . import x' and
\* 'from .helpers import x' was analyzed with helpers.py beside it: the
\* first statement made no call, the second made helpers external.
C23_Witness ==
    /\ last.kind = "analyzed"
    /\ last.item[2] = UtilsInit
    /\ UtilsHelpers \in tree
    /\ file_text[UtilsInit].stmts = {FromDotImportX, FromDotHelpersImportX}
    /\ Cardinality(last.calls) = 1
    /\ "helpers" \in external_dependencies
    /\ UtilsHelpers \notin processed_files

====
